---- MODULE Spec2Model ----
(***************************************************************************)
(* ls-preview (src/main.rs): a bounded scan of one directory followed by   *)
(* a multi-column print of the entries kept, in a grid of max_lines rows.   *)
(*                                                                         *)
(* A name is the sequence of its code points (UTF-8 keeps code point       *)
(* order, so OsString's byte order is the lexicographic order on these     *)
(* sequences).  Standard output is the sequence of the pieces the          *)
(* print!/println! calls write, in order.                                  *)
(***************************************************************************)
EXTENDS Integers, Sequences, FiniteSets

\* ------------------------------------------------------------- bounds
MaxEntries == 4
MaxLinesBound == 2
\* RowsSpec: entry counts 1 .. SmallLen and BigLen, line counts
\* 1 .. SmallLines and BigLines
SmallLen == 12
SmallLines == 3
BigLen == 65538
BigLines == 21846

\* ---------------------------------------------------- program constants
MIN_TAB_WIDTH == 8
TIME_LIMIT_NS == 10000000
U16 == 65536

\* ------------------------------------------------------------- inputs
\* What a directory may hold: (name, type) pairs with distinct names.  The
\* names are ".h", "a", "b", "c", "d", "eeeeeeeee" (nine cells), "ffffffff"
\* (eight cells) and the single code point U+200B (zero cells wide).
Pool ==
  { [name |-> <<46, 104>>, ftype |-> "Directory"],
    [name |-> <<97>>, ftype |-> "Directory"],
    [name |-> <<98>>, ftype |-> "RegularFile"],
    [name |-> <<99>>, ftype |-> "Directory"],
    [name |-> <<100>>, ftype |-> "Symlink"],
    [name |-> <<101, 101, 101, 101, 101, 101, 101, 101, 101>>, ftype |-> "Fifo"],
    [name |-> <<102, 102, 102, 102, 102, 102, 102, 102>>, ftype |-> "Socket"],
    [name |-> <<8203>>, ftype |-> "CharDevice"] }

\* ws_col as get_terminal_width sees it; 0 is the None it returns.
TermWidths == {0, 8, 16, 24, 32}

\* Elapsed nanoseconds one scan step may measure.
ElapsedSamples == {0, TIME_LIMIT_NS, TIME_LIMIT_NS + 1}

Listings ==
  { s \in UNION { [1..n -> Pool] : n \in 0..MaxEntries } :
      \A j, k \in DOMAIN s : j # k => s[j].name # s[k].name }

VARIABLES
  pc,                      \* where the run is
  dir,                     \* the directory, in read_dir's enumeration order
  max_lines,               \* args.max_lines
  terminal_width,          \* Option<u16>: 0 is None
  max_items,               \* main's max_items
  pos,                     \* how many items the read_dir iterator has yielded
  entries,                 \* main's first `entries` (the scan result)
  num_dirs,
  too_many_dirs,
  ran_out_of_time_listing,
  cands,                   \* print_entries_in_columns' `entries`
  consider_dirs_only,      \* print_entries_in_columns' fourth parameter
  column_width,
  num_columns,
  len,                     \* entries.len() in the print loop
  i,                       \* the print loop's index
  out,                     \* standard output
  lines                    \* the number of line breaks written to it

vars ==
  <<pc, dir, max_lines, terminal_width, max_items, pos, entries, num_dirs,
    too_many_dirs, ran_out_of_time_listing, cands, consider_dirs_only,
    column_width, num_columns, len, i, out, lines>>

\* ------------------------------------------------------------ helpers
Max2(a, b) == IF a >= b THEN a ELSE b

\* console::measure_text_width on one code point.
CharWidth(c) == IF c = 8203 THEN 0 ELSE 1

RECURSIVE measure_text_width(_)
measure_text_width(name) ==
  IF name = <<>> THEN 0
  ELSE CharWidth(Head(name)) + measure_text_width(Tail(name))

IsHiddenNever(name) == FALSE

\* name.to_string_lossy().starts_with(".")
IsHidden(name) == Len(name) >= 1 /\ name[1] = 46

is_dir(e) == e.ftype = "Directory"

\* a.0.cmp(&b.0) == Less
NameLess(a, b) ==
  \E k \in 1..Len(b) :
    /\ k <= Len(a) + 1
    /\ \A j \in 1..(k - 1) : a[j] = b[j]
    /\ (k <= Len(a) => a[k] < b[k])

\* max_columns, line 36-39
MaxColumns(tw) == Max2(IF tw # 0 THEN tw \div MIN_TAB_WIDTH ELSE 0, 1)

TooManyDirsStrict(nd, mi) == nd > mi

\* line 62
TooManyDirs(nd, mi) == nd >= mi

\* line 69
RanOutOfTime(elapsed) == elapsed > TIME_LIMIT_NS

MustPrintDirsNoTimeout(timedOut, tooMany, n, mi) == tooMany \/ n > mi

\* line 76
MustPrintDirs(timedOut, tooMany, n, mi) == timedOut \/ tooMany \/ n > mi

\* lines 79-96: the filter and the map to (name, meta, width)
WithWidth(e) ==
  [name |-> e.name, ftype |-> e.ftype,
   width |-> measure_text_width(e.name) % U16]

RECURSIVE MapWidth(_)
MapWidth(s) ==
  IF s = <<>> THEN <<>> ELSE <<WithWidth(Head(s))>> \o MapWidth(Tail(s))

Candidates(es, must) ==
  MapWidth(IF must THEN SelectSeq(es, is_dir) ELSE es)

Init ==
  /\ pc = "start"
  /\ dir \in Listings
  /\ max_lines \in 0..MaxLinesBound
  /\ terminal_width = 0
  /\ max_items = 0
  /\ pos = 0
  /\ entries = <<>>
  /\ num_dirs = 0
  /\ too_many_dirs = FALSE
  /\ ran_out_of_time_listing = FALSE
  /\ cands = <<>>
  /\ consider_dirs_only = FALSE
  /\ column_width = 0
  /\ num_columns = 0
  /\ len = 0
  /\ i = 0
  /\ out = <<>>
  /\ lines = 0

\* lines 28-33: max_lines == 0 is rejected before anything else.
RejectZeroLines ==
  /\ pc = "start"
  /\ max_lines = 0
  /\ pc' = "exit1"
  /\ UNCHANGED <<len, lines, dir, max_lines, terminal_width, max_items, pos, entries,
                 num_dirs, too_many_dirs, ran_out_of_time_listing, cands,
                 consider_dirs_only, column_width, num_columns, i, out>>

\* lines 35-48
Start ==
  /\ pc = "start"
  /\ max_lines # 0
  /\ \E w \in TermWidths :
       /\ terminal_width' = w
       /\ max_items' = MaxColumns(w) * max_lines
  /\ pc' = "open"
  /\ UNCHANGED <<len, lines, dir, max_lines, pos, entries, num_dirs, too_many_dirs,
                 ran_out_of_time_listing, cands, consider_dirs_only,
                 column_width, num_columns, i, out>>

\* line 51: fs::read_dir(..)? succeeds
OpenDir ==
  /\ pc = "open"
  /\ pc' = "scan"
  /\ UNCHANGED <<len, lines, dir, max_lines, terminal_width, max_items, pos, entries,
                 num_dirs, too_many_dirs, ran_out_of_time_listing, cands,
                 consider_dirs_only, column_width, num_columns, i, out>>

\* line 51: fs::read_dir(..)? fails, main returns the error
OpenDirFails ==
  /\ pc = "open"
  /\ pc' = "io_error"
  /\ UNCHANGED <<len, lines, dir, max_lines, terminal_width, max_items, pos, entries,
                 num_dirs, too_many_dirs, ran_out_of_time_listing, cands,
                 consider_dirs_only, column_width, num_columns, i, out>>

\* lines 51-56: the iterator yields a hidden entry, which is skipped
ScanSkipHidden ==
  /\ pc = "scan"
  /\ pos < Len(dir)
  /\ IsHidden(dir[pos + 1].name)
  /\ pos' = pos + 1
  /\ UNCHANGED <<len, lines, pc, dir, max_lines, terminal_width, max_items, entries,
                 num_dirs, too_many_dirs, ran_out_of_time_listing, cands,
                 consider_dirs_only, column_width, num_columns, i, out>>

\* line 57: entry_ref.file_type()? fails, main returns the error
ScanTypeFails ==
  /\ pc = "scan"
  /\ pos < Len(dir)
  /\ ~IsHidden(dir[pos + 1].name)
  /\ pc' = "io_error"
  /\ UNCHANGED <<len, lines, dir, max_lines, terminal_width, max_items, pos, entries,
                 num_dirs, too_many_dirs, ran_out_of_time_listing, cands,
                 consider_dirs_only, column_width, num_columns, i, out>>

\* lines 57-73: one iteration of the scan loop on a visible entry.  `times`
\* and the loop's `i` are written and never read; they are left out.
ScanEntry ==
  /\ pc = "scan"
  /\ pos < Len(dir)
  /\ ~IsHidden(dir[pos + 1].name)
  /\ LET e == dir[pos + 1]
         nd == IF is_dir(e) THEN num_dirs + 1 ELSE num_dirs
     IN /\ num_dirs' = nd
        /\ entries' = Append(entries, e)
        /\ pos' = pos + 1
        /\ IF TooManyDirs(nd, max_items)
           THEN /\ too_many_dirs' = TRUE
                /\ pc' = "decide"
                /\ UNCHANGED ran_out_of_time_listing
           ELSE \E elapsed \in ElapsedSamples :
                  IF RanOutOfTime(elapsed)
                  THEN /\ ran_out_of_time_listing' = TRUE
                       /\ pc' = "decide"
                       /\ UNCHANGED too_many_dirs
                  ELSE UNCHANGED <<pc, too_many_dirs, ran_out_of_time_listing>>
  /\ UNCHANGED <<len, lines, dir, max_lines, terminal_width, max_items, cands,
                 consider_dirs_only, column_width, num_columns, i, out>>

\* line 51/74: the iterator is exhausted
ScanEnd ==
  /\ pc = "scan"
  /\ pos = Len(dir)
  /\ pc' = "decide"
  /\ UNCHANGED <<len, lines, dir, max_lines, terminal_width, max_items, pos, entries,
                 num_dirs, too_many_dirs, ran_out_of_time_listing, cands,
                 consider_dirs_only, column_width, num_columns, i, out>>

\* lines 76-104
Decide ==
  /\ pc = "decide"
  /\ LET must_print_dirs ==
           MustPrintDirs(ran_out_of_time_listing, too_many_dirs,
                         Len(entries), max_items)
         kept == Candidates(entries, must_print_dirs)
     IN /\ cands' = kept
        /\ consider_dirs_only' = ~must_print_dirs
        /\ pc' = IF kept = <<>> THEN "done" ELSE "layout"
  /\ UNCHANGED <<len, lines, dir, max_lines, terminal_width, max_items, pos, entries,
                 num_dirs, too_many_dirs, ran_out_of_time_listing,
                 column_width, num_columns, i, out>>

\* line 114
MaxWidth(es) ==
  CHOOSE w \in {es[k].width : k \in DOMAIN es} :
    \A k \in DOMAIN es : es[k].width <= w

\* line 117 in u16 arithmetic: the subtraction or the multiplication leaves
\* the type's range
ColumnWidthOverflows(mw) ==
  mw - 1 < 0 \/ (((mw - 1) \div 8) + 1) * 8 >= U16

\* line 117, with the wrapping a build without overflow checks performs
ColumnWidth(mw) == (((((mw - 1) % U16) \div 8) + 1) * 8) % U16

\* line 119 (column width cw is not 0 when the terminal width is known)
NumColumns(tw, cw) == Max2(1, IF tw # 0 THEN tw \div cw ELSE 0)

MustNarrowNever(consider, n, nc, ml, anyDir) == FALSE

\* lines 121-125
MustNarrow(consider, n, nc, ml, anyDir) ==
  consider /\ n > nc * ml /\ anyDir

\* lines 113-134: the layout arithmetic and the narrowing to directories.
\* `checks` is whether the build traps integer overflow (it panics) or wraps.
Layout ==
  /\ pc = "layout"
  /\ LET mw == MaxWidth(cands)
         cw == ColumnWidth(mw)
     IN \E checks \in BOOLEAN :
          IF \/ ColumnWidthOverflows(mw) /\ checks
             \/ terminal_width # 0 /\ cw = 0
          THEN /\ pc' = "panic"
               /\ UNCHANGED <<cands, consider_dirs_only, column_width,
                              num_columns>>
          ELSE LET nc == NumColumns(terminal_width, cw)
               IN /\ column_width' = cw
                  /\ num_columns' = nc
                  /\ IF MustNarrow(consider_dirs_only, Len(cands), nc,
                                   max_lines,
                                   \E k \in DOMAIN cands : is_dir(cands[k]))
                     THEN /\ cands' = SelectSeq(cands, is_dir)
                          /\ consider_dirs_only' = FALSE
                          /\ pc' = "layout"
                     ELSE /\ pc' = "sort"
                          /\ UNCHANGED <<cands, consider_dirs_only>>
  /\ UNCHANGED <<len, lines, dir, max_lines, terminal_width, max_items, pos, entries,
                 num_dirs, too_many_dirs, ran_out_of_time_listing, i, out>>

\* entries.sort_by(|a, b| a.0.cmp(&b.0)): a stable sort
RECURSIVE InsertByName(_, _)
InsertByName(e, s) ==
  IF s = <<>> THEN <<e>>
  ELSE IF NameLess(e.name, Head(s).name) THEN <<e>> \o s
  ELSE <<Head(s)>> \o InsertByName(e, Tail(s))

RECURSIVE SortFrom(_, _)
SortFrom(s, acc) ==
  IF s = <<>> THEN acc ELSE SortFrom(Tail(s), InsertByName(Head(s), acc))

SortUnsorted(s) == s

SortByName(s) == SortFrom(s, <<>>)

\* line 136
Sort ==
  /\ pc = "sort"
  /\ cands' = SortByName(cands)
  /\ len' = Len(cands)
  /\ i' = 0
  /\ pc' = "print"
  /\ UNCHANGED <<lines, dir, max_lines, terminal_width, max_items, pos, entries,
                 num_dirs, too_many_dirs, ran_out_of_time_listing,
                 consider_dirs_only, column_width, num_columns, out>>

\* lines 163-181
get_color_and_indicator(ft) ==
  IF ft = "Directory" THEN <<[fg |-> "blue", bold |-> TRUE, bg |-> ""], "/">>
  ELSE IF ft = "Symlink" THEN <<[fg |-> "magenta", bold |-> FALSE, bg |-> ""], "@">>
  ELSE IF ft = "Socket" THEN <<[fg |-> "magenta", bold |-> FALSE, bg |-> ""], "=">>
  ELSE IF ft = "Fifo" THEN <<[fg |-> "yellow", bold |-> FALSE, bg |-> ""], "|">>
  ELSE IF ft = "BlockDevice" THEN <<[fg |-> "blue", bold |-> FALSE, bg |-> "cyan"], "">>
  ELSE IF ft = "CharDevice" THEN <<[fg |-> "blue", bold |-> FALSE, bg |-> "yellow"], "">>
  ELSE IF ft = "RegularFile" THEN <<[fg |-> "", bold |-> FALSE, bg |-> ""], "">>
  ELSE <<[fg |-> "", bold |-> FALSE, bg |-> ""], "">>

\* The pieces written to standard output.  `cells` is the number of display
\* cells the piece takes on its line.
NoStyle == [fg |-> "", bold |-> FALSE, bg |-> ""]
NameTok(name, style, w) ==
  [kind |-> "name", name |-> name, style |-> style, text |-> "", cells |-> w]
IndTok(ind) ==
  [kind |-> "ind", name |-> <<>>, style |-> NoStyle, text |-> ind,
   cells |-> IF ind = "" THEN 0 ELSE 1]
PadTok(n) ==
  [kind |-> "pad", name |-> <<>>, style |-> NoStyle, text |-> "", cells |-> n]
MarkerTok ==
  [kind |-> "marker", name |-> <<>>, style |-> NoStyle, text |-> "....",
   cells |-> 4]
NlTok ==
  [kind |-> "nl", name |-> <<>>, style |-> NoStyle, text |-> "", cells |-> 0]

TruncateAtCapacity(ml, nc) == ml * nc

\* line 140: the index at which the marker replaces the entry
TruncateAt(ml, nc) == ml * nc - 1

\* line 149: (i as u16 + 1) % num_columns
NextRowIndex(idx, nc) == (((idx % U16) + 1) % U16) % nc

\* line 150
NeedsPadding(nri) == nri # 0

\* line 151
Padding(cw, w) == (cw - w) % U16

\* line 156
EndsRow(nri, idx, n) == nri = 0 \/ idx = n - 1

\* lines 139-143: the marker is printed and the loop is left
PrintMarker ==
  /\ pc = "print"
  /\ i < len
  /\ i = TruncateAt(max_lines, num_columns)
  /\ out' = out \o <<MarkerTok, NlTok>>
  /\ lines' = lines + 1
  /\ pc' = "done"
  /\ UNCHANGED <<len, dir, max_lines, terminal_width, max_items, pos, entries,
                 num_dirs, too_many_dirs, ran_out_of_time_listing, cands,
                 consider_dirs_only, column_width, num_columns, i>>

\* lines 145-158: one entry is printed; after the last one the loop ends
PrintEntry ==
  /\ pc = "print"
  /\ i < len
  /\ i # TruncateAt(max_lines, num_columns)
  /\ LET e == cands[i + 1]
         si == get_color_and_indicator(e.ftype)
         nri == NextRowIndex(i, num_columns)
     IN /\ out' = out
                  \o <<NameTok(e.name, si[1], e.width), IndTok(si[2])>>
                  \o (IF NeedsPadding(nri)
                      THEN <<PadTok(Padding(column_width, e.width))>>
                      ELSE <<>>)
                  \o (IF EndsRow(nri, i, len) THEN <<NlTok>> ELSE <<>>)
        /\ lines' = lines + (IF EndsRow(nri, i, len) THEN 1 ELSE 0)
  /\ i' = i + 1
  /\ pc' = IF i + 1 = len THEN "done" ELSE "print"
  /\ UNCHANGED <<len, dir, max_lines, terminal_width, max_items, pos, entries,
                 num_dirs, too_many_dirs, ran_out_of_time_listing, cands,
                 consider_dirs_only, column_width, num_columns>>

Next ==
  \/ RejectZeroLines
  \/ Start
  \/ OpenDir
  \/ OpenDirFails
  \/ ScanSkipHidden
  \/ ScanTypeFails
  \/ ScanEntry
  \/ ScanEnd
  \/ Decide
  \/ Layout
  \/ Sort
  \/ PrintMarker
  \/ PrintEntry

Spec == Init /\ [][Next]_vars

\* ------------------------------------------- the print loop, as a whole
\* The index of the last entry the loop at lines 139-159 prints, for n
\* entries (-1: none).
LastPrinted(n, nc, ml) ==
  IF n > TruncateAt(ml, nc) THEN TruncateAt(ml, nc) - 1 ELSE n - 1

\* line 149: `i as u16 + 1` leaves the u16 range at some printed index k,
\* the first of which is k = 65535
IndexOverflows(n, nc, ml) == LastPrinted(n, nc, ml) >= U16 - 1

\* The number of println! calls of the whole loop: one per printed entry
\* that ends its row (line 156), and one for the marker (line 141).
LinesWritten(n, nc, ml) ==
  Cardinality({k \in 0..LastPrinted(n, nc, ml) :
                 EndsRow(NextRowIndex(k, nc), k, n)})
  + (IF n > TruncateAt(ml, nc) THEN 1 ELSE 0)

\* Directories too large to enumerate entry by entry: the state at the head
\* of the print loop, with the entries' names and types dropped.  An entry
\* count n is reachable when n <= max_items (n files whose names are at
\* most column_width cells wide).
RowsInit ==
  /\ pc = "print"
  /\ dir = <<>>
  /\ entries = <<>>
  /\ cands = <<>>
  /\ pos = 0
  /\ num_dirs = 0
  /\ too_many_dirs = FALSE
  /\ ran_out_of_time_listing = FALSE
  /\ consider_dirs_only = TRUE
  /\ terminal_width \in {24, 32, 40}
  /\ max_lines \in (1..SmallLines) \cup {BigLines}
  /\ max_items = MaxColumns(terminal_width) * max_lines
  /\ column_width \in {8, 16}
  /\ num_columns = NumColumns(terminal_width, column_width)
  /\ len \in {n \in (1..SmallLen) \cup {BigLen} : n <= max_items}
  /\ i = 0
  /\ out = <<>>
  /\ lines = 0

\* lines 139-160: the whole loop.  `checks` is whether the build traps
\* integer overflow.
PrintRows ==
  /\ pc = "print"
  /\ \E checks \in BOOLEAN :
       IF IndexOverflows(len, num_columns, max_lines) /\ checks
       THEN /\ pc' = "panic"
            /\ UNCHANGED <<i, lines>>
       ELSE /\ pc' = "done"
            /\ i' = LastPrinted(len, num_columns, max_lines) + 1
            /\ lines' = LinesWritten(len, num_columns, max_lines)
  /\ UNCHANGED <<len, dir, max_lines, terminal_width, max_items, pos, entries,
                 num_dirs, too_many_dirs, ran_out_of_time_listing, cands,
                 consider_dirs_only, column_width, num_columns, out>>

RowsNext == PrintRows

RowsSpec == RowsInit /\ [][RowsNext]_vars

\* ------------------------------------------------ reading the output
IsNameTok(t) == t.kind = "name"
NameToks == SelectSeq(out, IsNameTok)
PrintedNames == [k \in 1..Len(NameToks) |-> NameToks[k].name]
PrintedSet == {out[k].name : k \in {j \in DOMAIN out : out[j].kind = "name"}}
NlCount == Cardinality({k \in DOMAIN out : out[k].kind = "nl"})
MarkerCount == Cardinality({k \in DOMAIN out : out[k].kind = "marker"})

\* The position of the last line break before position k (0: none).
LastNl(k) ==
  CHOOSE j \in 0..(k - 1) :
    /\ j # 0 => out[j].kind = "nl"
    /\ \A m \in (j + 1)..(k - 1) : out[m].kind # "nl"

RECURSIVE SumCells(_, _)
SumCells(lo, hi) == IF lo > hi THEN 0 ELSE out[lo].cells + SumCells(lo + 1, hi)

\* The display cell at which the piece at position k starts on its line.
StartCell(k) == SumCells(LastNl(k) + 1, k - 1)

\* The number of entries printed before position k on its line.
ColOf(k) ==
  Cardinality({j \in (LastNl(k) + 1)..(k - 1) : out[j].kind = "name"})

Capacity == num_columns * max_lines
CandNames(n) == {cands[k].name : k \in 1..n}
DirCount(es) == Cardinality({k \in DOMAIN es : es[k].ftype = "Directory"})
Succeeded == pc = "done"
Printing == pc = "print" \/ (pc = "done" /\ out # <<>>)

\* Under Spec the entry-by-entry loop and the whole loop agree: `lines`
\* counts the line breaks of `out`, and a finished loop has written
\* LinesWritten of them.
RowsAgree ==
  /\ lines = NlCount
  /\ (Succeeded /\ out # <<>>) =>
       lines = LinesWritten(len, num_columns, max_lines)

\* ---------------------------------------------------------------- C1
\* C1: a successful run has written at most max_lines lines, the marker's
\* line included.
C1_AtMostMaxLines == Succeeded => lines <= max_lines

\* ---------------------------------------------------------------- C2
\* C2 as stated: with more candidates than the grid holds, the output ends
\* with a line holding the marker alone, and no entry of sorted index
\* beyond Capacity - 1 is printed.
C2_MarkerOnOwnLine ==
  (Succeeded /\ out # <<>> /\ Len(cands) > Capacity) =>
    /\ Len(out) >= 2
    /\ out[Len(out)] = NlTok
    /\ out[Len(out) - 1] = MarkerTok
    /\ (Len(out) = 2 \/ out[Len(out) - 2].kind = "nl")
    /\ PrintedSet \subseteq CandNames(Capacity)

\* C2 amended: with more candidates than the grid holds, the output ends
\* with the one marker and the entries printed are exactly those of sorted
\* index 0 .. Capacity - 2; while the grid holds at most 65536 cells the
\* marker takes the last cell of the last row: it closes line max_lines
\* after the num_columns - 1 entries of that row.
C2_MarkerInLastCell ==
  (Succeeded /\ out # <<>> /\ Len(cands) > Capacity) =>
    /\ Len(out) >= 2
    /\ out[Len(out)] = NlTok
    /\ out[Len(out) - 1] = MarkerTok
    /\ MarkerCount = 1
    /\ Capacity <= U16 =>
         /\ NlCount = max_lines
         /\ ColOf(Len(out) - 1) = num_columns - 1
    /\ PrintedNames = [k \in 1..(Capacity - 1) |-> cands[k].name]

C2_Witness ==
  /\ Succeeded
  /\ Len(cands) > Capacity
  /\ num_columns >= 2
  /\ MarkerCount = 1
  /\ Len(NameToks) >= 1

\* ---------------------------------------------------------------- C3
\* C3: when the candidates are no more than the grid holds (exactly as many
\* included), every one of them is printed and no marker is.
C3_NoTruncationWhenFits ==
  (Succeeded /\ out # <<>> /\ Len(cands) <= Capacity) =>
    /\ MarkerCount = 0
    /\ PrintedSet = CandNames(Len(cands))

\* ---------------------------------------------------------------- C4
\* C4: if an entry that is not a directory is printed, the scan neither ran
\* out of time nor reached the directory cap, and either the scanned set
\* fits num_columns * max_lines (the columns of the full scanned set) or it
\* holds no directory.
FullColumns ==
  NumColumns(terminal_width, ColumnWidth(MaxWidth(MapWidth(entries))))

NonDirPrinted ==
  \E k \in DOMAIN entries :
    entries[k].ftype # "Directory" /\ entries[k].name \in PrintedSet

C4_DirsOnlyFallback ==
  NonDirPrinted =>
    /\ ~ran_out_of_time_listing
    /\ ~too_many_dirs
    /\ \/ Len(entries) <= FullColumns * max_lines
       \/ DirCount(entries) = 0

C4_Witness ==
  /\ Succeeded
  /\ NonDirPrinted
  /\ DirCount(entries) >= 1
  /\ Len(entries) = FullColumns * max_lines

\* ---------------------------------------------------------------- C5
\* C5 as stated: the scan never holds more than max_items entries.
C5_EntriesWithinMaxItems ==
  pc \in {"scan", "decide"} => Len(entries) <= max_items

\* C5 amended: the scan never holds more than max_items directories, and
\* num_dirs is the number of directories it holds; entries that are not
\* directories do not count against the bound.
C5_DirsWithinMaxItems ==
  pc \notin {"start", "exit1"} =>
    /\ num_dirs = DirCount(entries)
    /\ num_dirs <= max_items

C5_Witness ==
  /\ pc = "decide"
  /\ too_many_dirs
  /\ num_dirs = max_items
  /\ Len(entries) > max_items

\* ---------------------------------------------------------------- C6
\* C6: once the layout of a non-empty candidate set is computed,
\* column_width is a positive multiple of 8, the smallest one that is >=
\* the widest name, and num_columns is the largest n with n * column_width
\* <= terminal_width, or 1 when that is 0 or the width is unknown.
C6_LayoutArithmetic ==
  pc \in {"sort", "print"} =>
    /\ column_width > 0
    /\ column_width % 8 = 0
    /\ column_width >= MaxWidth(cands)
    /\ column_width - 8 < MaxWidth(cands)
    /\ num_columns >= 1
    /\ IF terminal_width # 0 /\ column_width <= terminal_width
       THEN /\ num_columns * column_width <= terminal_width
            /\ (num_columns + 1) * column_width > terminal_width
       ELSE num_columns = 1

\* ---------------------------------------------------------------- C7
\* C7: the names printed are in strictly ascending order in print order,
\* and an entry is printed only if every candidate of smaller name is.
C7_AscendingInitialSegment ==
  Printing =>
    /\ \A j, k \in DOMAIN PrintedNames :
         j < k => NameLess(PrintedNames[j], PrintedNames[k])
    /\ \A p \in PrintedSet : \A k \in DOMAIN cands :
         NameLess(cands[k].name, p) => cands[k].name \in PrintedSet

C7_Witness ==
  /\ Succeeded
  /\ Len(PrintedNames) >= 2
  /\ MarkerCount = 1
  /\ \E j, k \in DOMAIN entries :
       j < k /\ NameLess(entries[k].name, entries[j].name)
             /\ entries[j].name \in PrintedSet
             /\ entries[k].name \in PrintedSet

\* ---------------------------------------------------------------- C8
\* C8: a name that starts with "." is never in the scan result, never
\* counted in num_dirs, and never printed.
StartsWithDot(name) == name # <<>> /\ name[1] = 46

C8_HiddenNeverShown ==
  /\ \A k \in DOMAIN entries : ~StartsWithDot(entries[k].name)
  /\ num_dirs =
       Cardinality({k \in 1..pos :
                      dir[k].ftype = "Directory" /\ ~StartsWithDot(dir[k].name)})
  /\ \A n \in PrintedSet : ~StartsWithDot(n)

C8_Witness ==
  /\ Succeeded
  /\ out # <<>>
  /\ \E k \in 1..pos :
       StartsWithDot(dir[k].name) /\ dir[k].ftype = "Directory"
  /\ num_dirs >= 1

\* ---------------------------------------------------------------- C9
\* C9: the entry in column c of a row starts at display cell
\* c * column_width, whatever the type of the entries before it.
C9_GridAligned ==
  \A k \in DOMAIN out :
    out[k].kind = "name" => StartCell(k) = ColOf(k) * column_width

\* --------------------------------------------------------------- C10
\* C10: a successful run prints nothing exactly when no visible entry was
\* scanned, or the directories-only decision holds and no scanned entry is
\* a directory; otherwise it prints at least one line.
C10_SilentIffEmpty ==
  Succeeded =>
    /\ out = <<>> <=>
         \/ entries = <<>>
         \/ /\ \/ ran_out_of_time_listing
               \/ too_many_dirs
               \/ Len(entries) > max_items
            /\ DirCount(entries) = 0
    /\ out # <<>> => NlCount >= 1

C10_Witness ==
  /\ Succeeded
  /\ out = <<>>
  /\ entries # <<>>
  /\ ran_out_of_time_listing
====
